---- MODULE Spec2Model ----
(***************************************************************************)
(* Change-detection and supervised-refresh loop of API_CAP:                *)
(*   main.py                 the Supervisor                                *)
(*   check_mongo_changes.py  the Change Detector (a subprocess)            *)
(*   get_mongo_data.py       the Data Refresher (a subprocess)             *)
(* The document store, the fingerprint file, the snapshot directories and  *)
(* the API port are the environment the three processes share.             *)
(***************************************************************************)
EXTENDS Integers, Sequences, FiniteSets, TLC

\* ------------------------------------------------------------------------
\* Bounds of the model
\* ------------------------------------------------------------------------
\* the external writers take the store through this many successive versions
MaxVersion == 5

\* ------------------------------------------------------------------------
\* Program constants
\* ------------------------------------------------------------------------
\* main.py:58, check_mongodb_changes
check_max_retries == 3
\* main.py:117, run_get_mongo_data
run_max_retries == 3
\* check_mongo_changes.py:50, get_mongodb_data_hash
hash_max_retries == 3
\* get_mongo_data.py:33, NetworkDataFetch.__init__
init_max_retries == 3

\* "BACHV_BB_STOCKS" and "BACHV_UD_STOCKS" as character sequences
DB_BB == <<"B","A","C","H","V","_","B","B","_","S","T","O","C","K","S">>
DB_UD == <<"B","A","C","H","V","_","U","D","_","S","T","O","C","K","S">>
DATABASES == <<DB_BB, DB_UD>>
DbSet == {DATABASES[i] : i \in 1..Len(DATABASES)}

\* collection names are sequences of code points; 'Net_Data_' is the prefix
NetDataPrefix == <<78, 101, 116, 95, 68, 97, 116, 97, 95>>
Name_Net_Data_1 == NetDataPrefix \o <<49>>
Name_Net_Data_2 == NetDataPrefix \o <<50>>
\* a collection of the database that does not carry the prefix ("meta")
Name_meta == <<109, 101, 116, 97>>

\* documents: a Python dict is a sequence of <<key, value>> pairs in
\* insertion order (keys are small integers standing for field names)
DocA == << <<1, 10>>, <<2, 20>> >>
DocB == << <<1, 11>>, <<2, 20>> >>

\* the contents a logical database can have: collection name -> documents
DbOnlyMeta == [n \in {Name_meta} |-> <<DocA>>]
DbV1 == [n \in {Name_Net_Data_1, Name_meta} |-> IF n = Name_meta THEN <<DocA>> ELSE <<DocA, DocB>>]
DbV1b == [n \in {Name_Net_Data_1} |-> <<DocB, DocB>>]
DbV1Zero == [n \in {Name_Net_Data_1} |-> <<>>]
DbV2 == [n \in {Name_Net_Data_1, Name_Net_Data_2} |-> <<DocA, DocB>>]

\* the successive versions of the whole store the external writers produce
\* (the list is gone through again when MaxVersion exceeds its length)
StoreOf(bb, ud) == [d \in DbSet |-> IF d = DB_BB THEN bb ELSE ud]
StoreVersions ==
    << StoreOf(DbV1Zero, DbOnlyMeta),  \* nothing to fetch in either database
       StoreOf(DbOnlyMeta, DbV1),      \* one database has no prefixed collection
       StoreOf(DbV1, DbV1),            \* both databases hold records
       StoreOf(DbV1b, DbV1),           \* the records of one database differ
       StoreOf(DbV2, DbV1)             \* a newer collection appears
    >>
StoreAt(v) == StoreVersions[((v - 1) % Len(StoreVersions)) + 1]

\* no fingerprint file / Python's None for a digest / None for a collection
NoFile == <<"NoFile">>
NoHash == <<"None">>
NoCollection == <<>>
\* no exit code yet
Running == -1
NoProc == [pc |-> "idle"]

\* ------------------------------------------------------------------------
\* Pure helpers
\* ------------------------------------------------------------------------
Range(s) == {s[i] : i \in 1..Len(s)}

\* Python's `sub in s` on strings
Contains(sub, s) ==
    \E i \in 1..(Len(s) - Len(sub) + 1) : SubSeq(s, i, i + Len(sub) - 1) = sub

\* str.startswith
StartsWith(s, p) == Len(s) >= Len(p) /\ SubSeq(s, 1, Len(p)) = p

\* Python's string order (sequences of code points, lexicographic)
LexLess(a, b) ==
    \E i \in 1..(Len(a) + 1) :
        /\ i <= Len(b)
        /\ \A j \in 1..(i - 1) : a[j] = b[j]
        /\ (i = Len(a) + 1 \/ a[i] < b[i])

\* check_mongo_changes.py get_latest_collection, the part without the store
\* error: the prefixed names, sorted in reverse, first element; None if none
PrefixedCollections(db) == {n \in DOMAIN db : StartsWith(n, NetDataPrefix)}

get_latest_collection_mut(db) ==
    CHOOSE c \in DOMAIN db : \A d \in DOMAIN db : d = c \/ LexLess(d, c)
get_latest_collection(db) ==
    IF PrefixedCollections(db) = {} THEN NoCollection
    ELSE CHOOSE c \in PrefixedCollections(db) :
            \A d \in PrefixedCollections(db) : d = c \/ LexLess(d, c)

\* json.dumps(..., sort_keys=True) on one document: pairs ordered by key
SortKeys(doc) ==
    CHOOSE s \in [1..Len(doc) -> Range(doc)] :
        /\ Range(s) = Range(doc)
        /\ \A i, j \in 1..Len(doc) : i < j => s[i][1] < s[j][1]

\* json.dumps(all_data, sort_keys=True): lists keep their order, dicts are
\* written with sorted keys
Dumps_mut(all_data) ==
    [i \in 1..Len(all_data) |->
        [data |-> [j \in 1..Len(all_data[i].data) |-> SortKeys(all_data[i].data[j])],
         database |-> all_data[i].database]]
Dumps(all_data) ==
    [i \in 1..Len(all_data) |->
        [collection |-> all_data[i].collection,
         data |-> [j \in 1..Len(all_data[i].data) |-> SortKeys(all_data[i].data[j])],
         database |-> all_data[i].database]]

\* hashlib.md5(...).hexdigest(): a digest of the serialized text, taken to
\* be free of collisions
Md5(text) == <<"md5", text>>

\* get_mongodb_data_hash lines 59-74 on a store `st`, where listing the
\* collections of the databases in `listErr` raised inside
\* get_latest_collection (which logs it and returns None)
AllData(st, listErr) ==
    LET kept(d) == d \notin listErr /\ get_latest_collection(st[d]) # NoCollection
        dbs == SelectSeq(DATABASES, kept)
    IN  [i \in 1..Len(dbs) |->
            [database |-> dbs[i],
             collection |-> get_latest_collection(st[dbs[i]]),
             data |-> st[dbs[i]][get_latest_collection(st[dbs[i]])]]]

\* the sets of databases whose collection listing can raise in one pass
ListErrors == {{}, {DB_UD}}

DataHash(st, listErr) == Md5(Dumps(AllData(st, listErr)))

\* has_data_changed line 96
has_changed_mut(current_hash, previous_hash) == TRUE
has_changed(current_hash, previous_hash) == current_hash # previous_hash

\* has_data_changed lines 97-100: the file is rewritten on a mismatch only
writes_on_mut(changed) == TRUE
writes_on(changed) == changed

\* check_mongo_changes.py __main__ lines 106-117: what is printed for the
\* outcome of has_data_changed ("true", "false", or "exc" when it raised)
Token_mut(result) ==
    IF result = "true" THEN <<"YES_CHANGED">>
    ELSE IF result = "false" THEN <<"NO_CHANGED">>
    ELSE <<>>
Token(result) ==
    IF result = "true" THEN <<"YES_CHANGED">>
    ELSE IF result = "false" THEN <<"NO_CHANGED">>
    ELSE <<"ERROR">>

\* main.py lines 76-95: the branch taken for a detector's stdout
Classify_mut(stdout) ==
    IF "YES_CHANGED" \in Range(stdout) THEN "changed"
    ELSE IF "NO_CHANGED" \in Range(stdout) \/ "ERROR" \in Range(stdout) THEN "unchanged"
    ELSE "undefined"
Classify(stdout) ==
    IF "YES_CHANGED" \in Range(stdout) THEN "changed"
    ELSE IF "NO_CHANGED" \in Range(stdout) THEN "unchanged"
    ELSE IF "ERROR" \in Range(stdout) THEN "error"
    ELSE "undefined"

\* main.py lines 84, 91, 99: `retry < max_retries - 1`
check_may_retry_mut(retry) == retry < check_max_retries
check_may_retry(retry) == retry < check_max_retries - 1

\* main.py lines 143, 151
run_may_retry_mut(retry) == retry < run_max_retries
run_may_retry(retry) == retry < run_max_retries - 1

\* the pause before the next attempt, in seconds: retry_delay = 2 in
\* check_mongo_changes.py line 51 and get_mongo_data.py line 34,
\* time.sleep(2) in main.py lines 86, 93, 100, 145, 152
retry_delay == 2
Delay_mut(retry) == retry_delay * (retry + 1)
Delay(retry) == retry_delay

\* main.py lines 98, 150: process.kill() in the timeout handler; the number
\* of processes the handler leaves running
left_running_mut(process) == 1
left_running(process) == 0

\* get_mongo_data.py lines 44-49
init_may_retry_mut(retry) == retry < init_max_retries - 2
init_may_retry(retry) == retry < init_max_retries - 1

\* get_mongo_data.py lines 84-89
SubDir_mut(database) ==
    IF Contains(<<"U","D">>, database) THEN "UD"
    ELSE IF Contains(<<"B","B">>, database) THEN "BB"
    ELSE "Other"
SubDir(database) ==
    IF Contains(<<"B","B">>, database) THEN "BB"
    ELSE IF Contains(<<"U","D">>, database) THEN "UD"
    ELSE "Other"

\* ------------------------------------------------------------------------
\* State
\* ------------------------------------------------------------------------
VARIABLES
    store,          \* the document store: database -> (collection -> documents)
    version,        \* which of the successive versions the store holds
    hashFile,       \* last_data_hash.txt: NoFile or the digest it holds
    snapshots,      \* the subdirectories of Get_Data that hold a snapshot file
    portOpen,       \* a server not started by the supervisor listens on 8080
    api_process,    \* main(): "None", or the child's state "alive" / "exited" / "terminated"
    sPc,            \* the supervisor's position in main()
    exitStatus,     \* the supervisor's exit status once it ended (Running before)
    chk,            \* the running call of check_mongodb_changes
    run,            \* the running call of run_get_mongo_data
    det,            \* the Change Detector subprocess
    ref,            \* the Data Refresher subprocess
    fileDecided,    \* history: the run that wrote hashFile was classified "changed"
    abandoned,      \* history: what a killed detector run had decided to report
    seeded,         \* history: the previous detector run was a first run that
                    \* reported YES_CHANGED for the store as it still is
    intervalValid,  \* os.environ: CHECK_INTERVAL is unset or parses as an integer
    endedBy,        \* history: what ended main() ("none" while it runs)
    apiLive,        \* number of living API processes the supervisor has spawned
    adopted,        \* history: main() found an API server listening and adopted it
    orphans,        \* detector/refresher processes left running after a timeout
    scn,            \* observer of the end-to-end scenario (off outside of it)
    calc            \* inputs and results of the pure functions checked on their own

vars == <<store, version, hashFile, snapshots, portOpen, api_process, sPc,
          exitStatus, chk, run, det, ref, fileDecided, abandoned, seeded,
          intervalValid, endedBy, apiLive, adopted, orphans, scn, calc>>

NoCheck == [retry |-> 0, spawns |-> 0, onlyTimeouts |-> TRUE, last |-> "none", result |-> "none",
            respawned |-> FALSE, waited |-> 0]
NoRun == [retry |-> 0, spawns |-> 0, result |-> "none", waited |-> 0]

\* a Change Detector process right after Popen
NewDetector ==
    [pc |-> "setup", retry |-> 0, connOnly |-> TRUE, hash |-> NoHash,
     partial |-> FALSE, result |-> "none", out |-> <<>>, writes |-> 0,
     firstRun |-> FALSE, compared |-> FALSE, changed |-> FALSE,
     stale |-> FALSE, waited |-> 0]

\* a Data Refresher process right after Popen
NewRefresher ==
    [pc |-> "connect", retry |-> 0, idx |-> 1, saved |-> {},
     connErr |-> FALSE, rc |-> Running, results |-> <<>>, waited |-> 0]

\* the scenario observer while no scenario is followed
ScnOff == [on |-> FALSE, clean |-> TRUE, written |-> 0, rowsOk |-> TRUE, checks |-> <<>>]
\* no pure function under evaluation
NoCalc == [kind |-> "none"]

Init ==
    /\ version \in 1..MaxVersion
    /\ store = StoreAt(version)
    /\ hashFile = NoFile
    /\ snapshots = {}
    /\ portOpen \in BOOLEAN
    /\ api_process = "None"
    /\ sPc = "start"
    /\ exitStatus = Running
    /\ chk = NoCheck
    /\ run = NoRun
    /\ det = NoProc
    /\ ref = NoProc
    /\ fileDecided = TRUE
    /\ abandoned = "none"
    /\ seeded = FALSE
    /\ intervalValid \in BOOLEAN
    /\ endedBy = "none"
    /\ apiLive = 0
    /\ adopted = FALSE
    /\ orphans = 0
    /\ scn = ScnOff
    /\ calc = NoCalc

\* ---- the scenario observer (it follows a step, it never restricts one) ----
\* the step is one pass of the refresher's loop that saved a snapshot file
SavedNow ==
    /\ ref.pc = "fetch"
    /\ ref'.pc \in {"fetch", "done"}
    /\ Len(ref'.results) = Len(ref.results) + 1
    /\ ref'.results[Len(ref'.results)] = "saved"

\* the number of rows of that file: the records of the current collection
RowsNow == Len(store[DATABASES[ref.idx]][get_latest_collection(store[DATABASES[ref.idx]])])

\* the step met a failure: the supervisor ended, a subprocess failed, was
\* retried or timed out, or a database was skipped
FaultNow ==
    \/ sPc' = "ended"
    \/ /\ det'.pc # "idle"
       /\ \/ det'.retry > 0
          \/ det'.partial
          \/ det'.result = "exc"
          \/ det'.pc = "done" /\ det'.out = <<>>
    \/ chk'.last \in {"timeout", "exception", "error", "undefined"}
    \/ run'.retry > 0
    \/ run'.result = "false"
    \/ /\ ref'.pc # "idle"
       /\ \/ ref'.retry > 0
          \/ ref'.connErr
          \/ ref'.rc = 1

\* the observer counts the snapshot files written and lists the results of
\* the calls of check_mongodb_changes; it stands still after a failure and
\* when the third check begins
Observed ==
    scn' = IF ~scn.on \/ ~scn.clean THEN scn
           ELSE IF FaultNow THEN [scn EXCEPT !.clean = FALSE]
           ELSE IF Len(scn.checks) = 2 /\ sPc = "sleep" /\ sPc' = "check"
                THEN [scn EXCEPT !.on = FALSE]
           ELSE [scn EXCEPT
                    !.written = IF SavedNow THEN @ + 1 ELSE @,
                    !.rowsOk = @ /\ (SavedNow => RowsNow = 3),
                    !.checks = IF sPc = "check" /\ sPc' = "checked"
                               THEN Append(@, chk'.result) ELSE @]

\* ------------------------------------------------------------------------
\* Environment
\* ------------------------------------------------------------------------
\* external writers move the store to a later version
StoreChange ==
    /\ \E v \in (version + 1)..MaxVersion :
        /\ version' = v
        /\ store' = StoreAt(v)
    /\ abandoned' = "none"
    /\ seeded' = FALSE
    /\ det' = IF det.pc \in {"idle", "setup", "hash"} THEN det ELSE [det EXCEPT !.stale = TRUE]
    /\ UNCHANGED <<hashFile, snapshots, portOpen, api_process, sPc, exitStatus,
                   chk, run, ref, fileDecided>>
    /\ UNCHANGED <<endedBy, apiLive>>
    /\ UNCHANGED <<intervalValid, calc, adopted, orphans>>
    /\ Observed

\* the server that was listening on port 8080 at the probe stops listening
ApiStopsListening ==
    /\ portOpen
    /\ sPc # "start"
    /\ portOpen' = FALSE
    /\ UNCHANGED <<store, version, hashFile, snapshots, api_process, sPc,
                   exitStatus, chk, run, det, ref, fileDecided, abandoned, seeded>>
    /\ UNCHANGED <<endedBy, apiLive>>
    /\ UNCHANGED <<intervalValid, calc, adopted, orphans>>
    /\ Observed

\* the API child started by the supervisor dies on its own
ApiCrash ==
    /\ api_process = "alive"
    /\ api_process' = "exited"
    /\ apiLive' = apiLive - 1
    /\ UNCHANGED <<store, version, hashFile, snapshots, portOpen, sPc,
                   exitStatus, chk, run, det, ref, fileDecided, abandoned, seeded>>
    /\ UNCHANGED endedBy
    /\ UNCHANGED <<intervalValid, calc, adopted, orphans>>
    /\ Observed

\* ------------------------------------------------------------------------
\* Change Detector (check_mongo_changes.py)
\* ------------------------------------------------------------------------
\* lines 1-34: imports, log directory, log file, dotenv.  None of it is
\* inside a try: a failure ends the process with a traceback on stderr and
\* nothing on stdout.
DetSetup ==
    /\ det.pc = "setup"
    /\ \E ok \in BOOLEAN :
        det' = IF ok THEN [det EXCEPT !.pc = "hash"]
               ELSE [det EXCEPT !.pc = "done"]
    /\ UNCHANGED <<store, version, hashFile, snapshots, portOpen,
                   api_process, sPc, exitStatus, chk, run, ref, fileDecided, abandoned, seeded>>
    /\ UNCHANGED <<endedBy, apiLive>>
    /\ UNCHANGED <<intervalValid, calc, adopted, orphans>>
    /\ Observed

\* get_mongodb_data_hash, one pass of the loop at lines 53-82.
\*   "connect": MongoClient / ping raised; "read": collection.find raised;
\*   "ok": the digest is computed, over the databases whose collection
\*   listing did not raise (listErr) and that have a prefixed collection.
DetHashAttempt ==
    /\ det.pc = "hash"
    /\ \E outcome \in {"ok", "connect", "read"}, listErr \in ListErrors :
        IF outcome = "ok"
        THEN det' = [det EXCEPT !.pc = "exists",
                                !.hash = DataHash(store, listErr),
                                !.stale = FALSE,
                                !.partial = (listErr # {})]
        ELSE /\ listErr = {}
             /\ det' = [det EXCEPT
                    !.connOnly = @ /\ outcome = "connect",
                    !.retry = IF det.retry < hash_max_retries - 1 THEN @ + 1 ELSE @,
                    !.waited = IF det.retry < hash_max_retries - 1
                               THEN @ + Delay(det.retry) ELSE @,
                    !.pc = IF det.retry < hash_max_retries - 1 THEN "hash" ELSE "print",
                    \* lines 80-82 return None; has_data_changed lines 86-88
                    !.result = IF det.retry < hash_max_retries - 1 THEN "none" ELSE "false"]
    /\ UNCHANGED <<store, version, hashFile, snapshots, portOpen,
                   api_process, sPc, exitStatus, chk, run, ref, fileDecided, abandoned, seeded>>
    /\ UNCHANGED <<endedBy, apiLive>>
    /\ UNCHANGED <<intervalValid, calc, adopted, orphans>>
    /\ Observed

\* has_data_changed lines 89-96: the existence test, then the read of the
\* stored digest and the comparison (open() may raise)
DetCompare ==
    /\ det.pc = "exists"
    /\ IF hashFile = NoFile
       THEN det' = [det EXCEPT !.pc = "write", !.firstRun = TRUE, !.changed = TRUE]
       ELSE \E ioError \in BOOLEAN :
            det' = IF ioError
                   THEN [det EXCEPT !.pc = "print", !.result = "exc"]
                   ELSE [det EXCEPT
                            !.compared = TRUE,
                            !.changed = has_changed(det.hash, hashFile),
                            !.pc = IF writes_on(has_changed(det.hash, hashFile))
                                   THEN "write" ELSE "print",
                            !.result = IF writes_on(has_changed(det.hash, hashFile))
                                       THEN "none"
                                       ELSE IF has_changed(det.hash, hashFile)
                                            THEN "true" ELSE "false"]
    /\ UNCHANGED <<store, version, hashFile, snapshots, portOpen,
                   api_process, sPc, exitStatus, chk, run, ref, fileDecided, abandoned, seeded>>
    /\ UNCHANGED <<endedBy, apiLive>>
    /\ UNCHANGED <<intervalValid, calc, adopted, orphans>>
    /\ Observed

\* has_data_changed lines 91-93 and 99-103: write the digest and return
\* (open() may raise, the file is then left alone)
DetWrite ==
    /\ det.pc = "write"
    /\ \E ioError \in BOOLEAN :
        IF ioError
        THEN /\ det' = [det EXCEPT !.pc = "print", !.result = "exc"]
             /\ UNCHANGED hashFile
        ELSE /\ hashFile' = det.hash
             /\ det' = [det EXCEPT !.pc = "print", !.writes = @ + 1,
                            !.result = IF det.changed THEN "true" ELSE "false"]
    /\ fileDecided' = IF hashFile' = hashFile /\ det'.writes = det.writes
                      THEN fileDecided ELSE FALSE
    /\ UNCHANGED <<store, version, snapshots, portOpen, api_process, sPc,
                   exitStatus, chk, run, ref, abandoned, seeded>>
    /\ UNCHANGED <<endedBy, apiLive>>
    /\ UNCHANGED <<intervalValid, calc, adopted, orphans>>
    /\ Observed

\* __main__ lines 108-117: print the token, flushed
DetPrint ==
    /\ det.pc = "print"
    /\ det' = [det EXCEPT !.pc = "exiting", !.out = Token(det.result)]
    /\ UNCHANGED <<store, version, hashFile, snapshots, portOpen,
                   api_process, sPc, exitStatus, chk, run, ref, fileDecided, abandoned, seeded>>
    /\ UNCHANGED <<endedBy, apiLive>>
    /\ UNCHANGED <<intervalValid, calc, adopted, orphans>>
    /\ Observed

\* the log lines after the print, interpreter shutdown, process exit
DetExit ==
    /\ det.pc = "exiting"
    /\ det' = [det EXCEPT !.pc = "done"]
    /\ UNCHANGED <<store, version, hashFile, snapshots, portOpen,
                   api_process, sPc, exitStatus, chk, run, ref, fileDecided, abandoned, seeded>>
    /\ UNCHANGED <<endedBy, apiLive>>
    /\ UNCHANGED <<intervalValid, calc, adopted, orphans>>
    /\ Observed

\* the detector process
Detector == DetSetup \/ DetHashAttempt \/ DetCompare \/ DetWrite \/ DetPrint \/ DetExit

\* ------------------------------------------------------------------------
\* Data Refresher (get_mongo_data.py)
\* ------------------------------------------------------------------------
\* NetworkDataFetch.__init__ lines 36-49, one pass of the loop; the
\* exception raised after the last attempt is not caught by __main__ and
\* ends the process with exit code 1
RefConnect ==
    /\ ref.pc = "connect"
    /\ \E ok \in BOOLEAN :
        ref' = IF ok THEN [ref EXCEPT !.pc = "fetch"]
               ELSE IF init_may_retry(ref.retry)
                    THEN [ref EXCEPT !.retry = @ + 1, !.waited = @ + Delay(ref.retry)]
                    ELSE [ref EXCEPT !.pc = "done", !.rc = 1]
    /\ UNCHANGED <<store, version, hashFile, snapshots, portOpen,
                   api_process, sPc, exitStatus, chk, run, det, fileDecided, abandoned, seeded>>
    /\ UNCHANGED <<endedBy, apiLive>>
    /\ UNCHANGED <<intervalValid, calc, adopted, orphans>>
    /\ Observed

\* get_mongo_data.py lines 51-62, NetworkDataFetch.get_latest_collection
\* without the store error: sorted(collections, reverse=True)[0], None
\* when no name has the prefix
SortedReverse(names) ==
    CHOOSE s \in [1..Cardinality(names) -> names] :
        \A i, j \in 1..Cardinality(names) : i < j => LexLess(s[j], s[i])

NetworkDataFetch_get_latest_collection(db) ==
    IF PrefixedCollections(db) = {} THEN NoCollection
    ELSE SortedReverse(PrefixedCollections(db))[1]

\* fetch_and_save_data lines 97-116 for one database: None without a
\* prefixed collection or without records, the saved file otherwise, an
\* ApiPredictionException when the store connection fails ("raise")
FetchResult(database, st, outcome) ==
    LET latest_collection == NetworkDataFetch_get_latest_collection(st[database])
    IN  IF outcome = "raise" THEN "raised"
        ELSE IF latest_collection = NoCollection THEN "no_collection"
        ELSE IF Len(st[database][latest_collection]) = 0 THEN "no_records"
        ELSE "saved"

\* __main__ lines 125-134: the try/except sits inside the for loop, so
\* every outcome for one database leads on to the next database
after_database_mut(idx, result) ==
    IF idx = Len(DATABASES) \/ result # "saved" THEN "done" ELSE "fetch"
after_database(idx, result) ==
    IF idx = Len(DATABASES) THEN "done" ELSE "fetch"

\* __main__ lines 125-136, one pass of the loop over DATABASES with
\* fetch_and_save_data (lines 81-116): "raise" is a failure of the store
\* connection inside it, wrapped in ApiPredictionException and caught at
\* line 133. After the loop the script runs off its end: exit code 0.
RefFetch ==
    /\ ref.pc = "fetch"
    /\ \E outcome \in {"ok", "raise"} :
        LET database == DATABASES[ref.idx]
            result == FetchResult(database, store, outcome)
            pc == after_database(ref.idx, result)
        IN  /\ snapshots' = IF result = "saved" THEN snapshots \cup {SubDir(database)}
                            ELSE snapshots
            /\ ref' = [ref EXCEPT !.saved = IF result = "saved" THEN @ \cup {database} ELSE @,
                                  !.connErr = @ \/ (result = "raised"),
                                  !.results = Append(@, result),
                                  !.idx = IF pc = "done" THEN @ ELSE @ + 1,
                                  !.pc = pc,
                                  !.rc = IF pc = "done" THEN 0 ELSE Running]
    /\ UNCHANGED <<store, version, hashFile, portOpen, api_process, sPc,
                   exitStatus, chk, run, det, fileDecided, abandoned, seeded>>
    /\ UNCHANGED <<endedBy, apiLive>>
    /\ UNCHANGED <<intervalValid, calc, adopted, orphans>>
    /\ Observed

\* the refresher process
Refresher == RefConnect \/ RefFetch

\* ------------------------------------------------------------------------
\* Supervisor (main.py): check_mongodb_changes
\* ------------------------------------------------------------------------
\* what a detector run that is being abandoned had already decided to print
WouldReport ==
    IF /\ det.pc \in {"write", "print", "exiting"}
       /\ det.hash # NoHash /\ ~det.partial /\ ~det.stale
       /\ det.result # "exc"
    THEN IF det.pc = "write" THEN Token(IF det.changed THEN "true" ELSE "false")[1]
         ELSE Token(det.result)[1]
    ELSE "none"

\* lines 63-70: Popen; an exception of Popen reaches line 103 and ends the
\* call with False
ChkSpawn ==
    /\ sPc = "check"
    /\ det.pc = "idle"
    /\ \E ok \in BOOLEAN :
        IF ok
        THEN /\ det' = NewDetector
             /\ chk' = [chk EXCEPT !.spawns = @ + 1]
             /\ UNCHANGED sPc
        ELSE /\ chk' = [chk EXCEPT !.result = "false", !.onlyTimeouts = FALSE,
                                   !.last = "exception"]
             /\ sPc' = "checked"
             /\ UNCHANGED det
    /\ UNCHANGED <<store, version, hashFile, snapshots, portOpen,
                   api_process, exitStatus, run, ref, fileDecided, abandoned, seeded>>
    /\ UNCHANGED <<endedBy, apiLive>>
    /\ UNCHANGED <<intervalValid, calc, adopted, orphans>>
    /\ Observed

\* lines 71-95: communicate() returned because the detector exited; its
\* stdout is classified
ChkCommunicate ==
    /\ sPc = "check"
    /\ det.pc = "done"
    /\ LET class == Classify(det.out)
           again == class \in {"error", "undefined"} /\ check_may_retry(chk.retry)
       IN /\ chk' = [chk EXCEPT
                        !.onlyTimeouts = FALSE,
                        !.last = class,
                        !.retry = IF again THEN @ + 1 ELSE @,
                        !.waited = IF again THEN @ + Delay(chk.retry) ELSE @,
                        !.result = IF again THEN "none"
                                   ELSE IF class = "changed" THEN "true" ELSE "false"]
          /\ sPc' = IF again THEN "check" ELSE "checked"
          /\ fileDecided' = IF class = "changed" THEN (hashFile = det.hash) ELSE fileDecided
    /\ det' = NoProc
    /\ abandoned' = "none"
    /\ seeded' = (det.firstRun /\ det.out = <<"YES_CHANGED">> /\ ~det.partial /\ ~det.stale)
    /\ UNCHANGED <<store, version, hashFile, snapshots, portOpen,
                   api_process, exitStatus, run, ref>>
    /\ UNCHANGED <<endedBy, apiLive>>
    /\ UNCHANGED <<intervalValid, calc, adopted, orphans>>
    /\ Observed

\* lines 96-102: communicate() timed out after 60 s while the detector was
\* still running; the detector is killed and its output is not looked at
ChkTimeout ==
    /\ sPc = "check"
    /\ det.pc \notin {"idle", "done"}
    /\ chk' = [chk EXCEPT
                !.last = "timeout",
                !.retry = IF check_may_retry(chk.retry) THEN @ + 1 ELSE @,
                !.waited = IF check_may_retry(chk.retry) THEN @ + Delay(chk.retry) ELSE @,
                !.result = IF check_may_retry(chk.retry) THEN "none" ELSE "false"]
    /\ sPc' = IF check_may_retry(chk.retry) THEN "check" ELSE "checked"
    /\ abandoned' = IF abandoned = "none" THEN WouldReport ELSE abandoned
    /\ det' = NoProc
    /\ orphans' = orphans + left_running(det)
    /\ seeded' = FALSE
    /\ UNCHANGED <<store, version, hashFile, snapshots, portOpen,
                   api_process, exitStatus, run, ref, fileDecided>>
    /\ UNCHANGED <<endedBy, apiLive>>
    /\ UNCHANGED <<intervalValid, calc, adopted>>
    /\ Observed

check_mongodb_changes == ChkSpawn \/ ChkCommunicate \/ ChkTimeout

\* ------------------------------------------------------------------------
\* Supervisor (main.py): run_get_mongo_data
\* ------------------------------------------------------------------------
InRun == sPc \in {"startup_refresh", "refresh"}
AfterRun == IF sPc = "startup_refresh" THEN "startup_refreshed" ELSE "refreshed"

\* lines 122-129: Popen; an exception of Popen reaches line 155
RunSpawn ==
    /\ InRun
    /\ ref.pc = "idle"
    /\ \E ok \in BOOLEAN :
        IF ok
        THEN /\ ref' = NewRefresher
             /\ run' = [run EXCEPT !.spawns = @ + 1]
             /\ UNCHANGED sPc
        ELSE /\ run' = [run EXCEPT !.result = "false"]
             /\ sPc' = AfterRun
             /\ UNCHANGED ref
    /\ UNCHANGED <<store, version, hashFile, snapshots, portOpen,
                   api_process, exitStatus, chk, det, fileDecided, abandoned, seeded>>
    /\ UNCHANGED <<endedBy, apiLive>>
    /\ UNCHANGED <<intervalValid, calc, adopted, orphans>>
    /\ Observed

\* lines 130-147: communicate() returned; the exit code decides
RunCommunicate ==
    /\ InRun
    /\ ref.pc = "done"
    /\ LET again == ref.rc # 0 /\ run_may_retry(run.retry)
       IN /\ run' = [run EXCEPT
                        !.retry = IF again THEN @ + 1 ELSE @,
                        !.waited = IF again THEN @ + Delay(run.retry) ELSE @,
                        !.result = IF again THEN "none"
                                   ELSE IF ref.rc = 0 THEN "true" ELSE "false"]
          /\ sPc' = IF again THEN sPc ELSE AfterRun
    /\ ref' = NoProc
    /\ UNCHANGED <<store, version, hashFile, snapshots, portOpen,
                   api_process, exitStatus, chk, det, fileDecided, abandoned, seeded>>
    /\ UNCHANGED <<endedBy, apiLive>>
    /\ UNCHANGED <<intervalValid, calc, adopted, orphans>>
    /\ Observed

\* lines 148-154: communicate() timed out after 120 s; the refresher is killed
RunTimeout ==
    /\ InRun
    /\ ref.pc \notin {"idle", "done"}
    /\ run' = [run EXCEPT
                !.retry = IF run_may_retry(run.retry) THEN @ + 1 ELSE @,
                !.waited = IF run_may_retry(run.retry) THEN @ + Delay(run.retry) ELSE @,
                !.result = IF run_may_retry(run.retry) THEN "none" ELSE "false"]
    /\ sPc' = IF run_may_retry(run.retry) THEN sPc ELSE AfterRun
    /\ ref' = NoProc
    /\ orphans' = orphans + left_running(ref)
    /\ UNCHANGED <<store, version, hashFile, snapshots, portOpen,
                   api_process, exitStatus, chk, det, fileDecided, abandoned, seeded>>
    /\ UNCHANGED <<endedBy, apiLive>>
    /\ UNCHANGED <<intervalValid, calc, adopted>>
    /\ Observed

run_get_mongo_data == RunSpawn \/ RunCommunicate \/ RunTimeout

\* ------------------------------------------------------------------------
\* Supervisor (main.py): main
\* ------------------------------------------------------------------------
\* lines 162-168: where main() goes after the probe of port 8080
after_probe_mut(api_running) == "startup_refresh"
after_probe(api_running) == IF api_running THEN "sleep" ELSE "startup_refresh"

\* lines 160-168: the port probe; a listening server is adopted, otherwise
\* the startup refresh begins
SupStart ==
    /\ sPc = "start"
    /\ sPc' = after_probe(portOpen)
    /\ adopted' = portOpen
    /\ run' = NoRun
    /\ UNCHANGED <<store, version, hashFile, snapshots, portOpen,
                   api_process, exitStatus, chk, det, ref, fileDecided, abandoned, seeded>>
    /\ UNCHANGED <<endedBy, apiLive>>
    /\ UNCHANGED <<intervalValid, calc, orphans>>
    /\ Observed

\* lines 169-179: spawn the API server, or sys.exit(1)
SupStartupBranch ==
    /\ sPc = "startup_refreshed"
    /\ IF run.result = "true"
       THEN /\ api_process' = "alive"
            /\ apiLive' = apiLive + 1
            /\ sPc' = "api_spawned"
            /\ UNCHANGED <<exitStatus, endedBy>>
       ELSE /\ sPc' = "ended"
            /\ exitStatus' = 1
            /\ endedBy' = "sys.exit"
            /\ UNCHANGED <<api_process, apiLive>>
    /\ run' = NoRun
    /\ UNCHANGED <<store, version, hashFile, snapshots, portOpen, chk,
                   det, ref, fileDecided, abandoned, seeded>>
    /\ UNCHANGED <<intervalValid, calc, adopted, orphans>>
    /\ Observed

\* lines 176-180: the log line after Popen, then the try of the loop is entered
SupEnterLoop ==
    /\ sPc = "api_spawned"
    /\ sPc' = "sleep"
    /\ UNCHANGED <<store, version, hashFile, snapshots, portOpen, api_process,
                   exitStatus, chk, run, det, ref, fileDecided, abandoned, seeded>>
    /\ UNCHANGED <<endedBy, apiLive>>
    /\ UNCHANGED <<intervalValid, calc, adopted, orphans>>
    /\ Observed

\* line 185: `api_process is not None and api_process.poll() is not None`
needs_respawn_mut(process) == process # "None"
needs_respawn(process) == process = "exited"

\* lines 208-212: an exception in the loop body; the child is terminated and
\* main() returns
LoopError ==
    /\ sPc' = "ended"
    /\ exitStatus' = 0
    /\ endedBy' = "Exception"
    /\ api_process' = IF api_process = "alive" THEN "terminated" ELSE api_process
    /\ apiLive' = IF api_process = "alive" THEN apiLive - 1 ELSE apiLive
    /\ UNCHANGED chk

\* lines 182-194: CHECK_INTERVAL is parsed (int() raises on a value that is
\* not an integer), the sleep ends, a child that has exited is respawned
\* (Popen may raise), and the call of check_mongodb_changes begins
SupWake ==
    /\ sPc = "sleep"
    /\ IF ~intervalValid
       THEN LoopError
       ELSE IF needs_respawn(api_process)
            THEN \E ok \in BOOLEAN :
                    IF ok
                    THEN /\ api_process' = "alive"
                         /\ apiLive' = apiLive + 1
                         /\ sPc' = "check"
                         /\ chk' = [NoCheck EXCEPT !.respawned = TRUE]
                         /\ UNCHANGED <<exitStatus, endedBy>>
                    ELSE LoopError
            ELSE /\ sPc' = "check"
                 /\ chk' = NoCheck
                 /\ UNCHANGED <<api_process, apiLive, exitStatus, endedBy>>
    /\ UNCHANGED <<store, version, hashFile, snapshots, portOpen,
                   run, det, ref, fileDecided, abandoned, seeded>>
    /\ UNCHANGED <<intervalValid, calc, adopted, orphans>>
    /\ Observed

\* line 194: `if check_mongodb_changes():`
should_refresh_mut(result) == result \in {"true", "false"}
should_refresh(result) == result = "true"

\* lines 194-202: the branch on the result of check_mongodb_changes
SupBranch ==
    /\ sPc = "checked"
    /\ sPc' = IF should_refresh(chk.result) THEN "refresh" ELSE "sleep"
    /\ chk' = NoCheck
    /\ run' = NoRun
    /\ UNCHANGED <<store, version, hashFile, snapshots, portOpen,
                   api_process, exitStatus, det, ref, fileDecided, abandoned, seeded>>
    /\ UNCHANGED <<endedBy, apiLive>>
    /\ UNCHANGED <<intervalValid, calc, adopted, orphans>>
    /\ Observed

\* lines 196-200: the refresh result is logged either way
SupAfterRefresh ==
    /\ sPc = "refreshed"
    /\ sPc' = "sleep"
    /\ run' = NoRun
    /\ UNCHANGED <<store, version, hashFile, snapshots, portOpen,
                   api_process, exitStatus, chk, det, ref, fileDecided, abandoned, seeded>>
    /\ UNCHANGED <<endedBy, apiLive>>
    /\ UNCHANGED <<intervalValid, calc, adopted, orphans>>
    /\ Observed

\* KeyboardInterrupt: inside the loop it is handled at lines 203-207 (the
\* child is terminated, the program ends normally); before the loop nothing
\* catches it
Interrupt ==
    /\ sPc # "ended"
    /\ sPc' = "ended"
    /\ IF sPc \in {"sleep", "check", "checked", "refresh", "refreshed"}
       THEN /\ api_process' = IF api_process = "alive" THEN "terminated" ELSE api_process
            /\ apiLive' = IF api_process = "alive" THEN apiLive - 1 ELSE apiLive
            /\ exitStatus' = 0
            /\ endedBy' = "KeyboardInterrupt"
       ELSE /\ exitStatus' = 130
            /\ endedBy' = "uncaught"
            /\ UNCHANGED <<api_process, apiLive>>
    /\ chk' = NoCheck
    /\ run' = NoRun
    /\ UNCHANGED <<store, version, hashFile, snapshots, portOpen,
                   det, ref, fileDecided, abandoned, seeded>>
    /\ UNCHANGED <<intervalValid, calc, adopted, orphans>>
    /\ Observed

main == SupStart \/ SupStartupBranch \/ SupEnterLoop \/ SupWake \/ SupBranch \/ SupAfterRefresh \/ Interrupt

Next ==
    \/ StoreChange
    \/ ApiStopsListening
    \/ ApiCrash
    \/ Detector
    \/ Refresher
    \/ check_mongodb_changes
    \/ run_get_mongo_data
    \/ main

Spec == Init /\ [][Next]_vars

\* ------------------------------------------------------------------------
\* Properties
\* ------------------------------------------------------------------------
Tokens == {"YES_CHANGED", "NO_CHANGED", "ERROR"}

\* the detector run computed a digest over every database of the store as
\* it still is, and met no file error
CleanRun ==
    /\ det.hash # NoHash
    /\ ~det.partial
    /\ ~det.stale
    /\ det.result \in {"true", "false"}

\* C1: when every spawn of the detector in one call of check_mongodb_changes
\* timed out, the call ends after exactly 3 spawns with the result False,
\* never spawns a fourth time, and the supervisor then goes back to sleep
\* without starting the Data Refresher.
C1_RetryBound ==
    /\ [](chk.spawns <= 3)
    /\ [](sPc = "checked" /\ chk.onlyTimeouts => chk.spawns = 3 /\ chk.result = "false")
    /\ [][sPc = "checked" /\ chk.onlyTimeouts /\ sPc' # sPc
            => sPc' \in {"sleep", "ended"} /\ ref' = ref /\ ref.pc = "idle"]_vars

C1_Witness ==
    sPc = "checked" /\ chk.onlyTimeouts /\ chk.spawns = 3 /\ chk.last = "timeout"

\* C2: a detector run whose three connection attempts all failed prints
\* ERROR.
C2_ErrorWhenUnreachable ==
    (det.pc = "done" /\ det.result # "none" /\ det.hash = NoHash /\ det.connOnly)
        => det.out = <<"ERROR">>

\* C3: whenever the supervisor is back in its sleep, the fingerprint file
\* holds the digest of the detector run that led to the latest refresh
\* decision (a run whose output was classified as a change).
C3_FingerprintReflectsDecision ==
    sPc = "sleep" => fileDecided

\* C4: a refresher process that ends without having written a snapshot for
\* any database ends with a non-zero exit code.
C4_ExitCodeTellsFailure ==
    (ref.pc = "done" /\ ref.saved = {}) => ref.rc # 0

\* C5: the supervisor has an API child only if the snapshot directories
\* hold data to serve.
C5_NoApiWithoutData ==
    api_process # "None" => snapshots # {}

\* C6: a first run (no fingerprint file) over a readable store prints
\* YES_CHANGED and leaves the file holding its digest; the run right after
\* it, over the same store, prints NO_CHANGED and writes nothing.
C6_FirstRunIdempotence ==
    /\ (det.pc = "done" /\ det.firstRun /\ det.hash # NoHash /\ det.result # "exc")
            => det.out = <<"YES_CHANGED">> /\ det.writes = 1 /\ hashFile = det.hash
    /\ (det.pc = "done" /\ seeded /\ CleanRun)
            => det.out = <<"NO_CHANGED">> /\ det.writes = 0

C6_Witness ==
    det.pc = "done" /\ seeded /\ CleanRun /\ det.out = <<"NO_CHANGED">>

\* C7: a detector run that follows a killed one over the same store prints
\* what the killed one had decided to print.
C7_AbandonedRunRepeats ==
    (det.pc = "done" /\ abandoned # "none" /\ CleanRun) => det.out = <<abandoned>>

\* C8: a detector run writes the fingerprint file at most once and only on
\* a first run or a mismatch; a finished run that wrote printed YES_CHANGED,
\* a finished run that printed anything else wrote nothing, and nothing but
\* the detector's write step changes the file.
C8_WriteOnlyOnChanged ==
    /\ [](det.pc # "idle" => det.writes <= 1)
    /\ [](det.pc # "idle" /\ det.writes = 1 => det.firstRun \/ det.changed)
    /\ [](det.pc = "done" /\ det.writes = 1 => det.out = <<"YES_CHANGED">>)
    /\ [](det.pc = "done" /\ det.out # <<"YES_CHANGED">> => det.writes = 0)
    /\ [][hashFile' # hashFile => det.pc = "write" /\ det'.writes = det.writes + 1]_vars

C8_Witness ==
    det.pc = "done" /\ det.writes = 1 /\ ~det.firstRun /\ det.out = <<"YES_CHANGED">>

\* C9: when communicate() returns, stdout with YES_CHANGED ends the check
\* with True and stdout with NO_CHANGED ends it with False, at once; stdout
\* with ERROR or with no token makes the check spawn again while fewer than
\* 3 spawns were made and ends it with False at the third; a check that
\* ended with False is not followed by a refresh.
C9_Classification ==
    /\ [](chk.spawns <= 3)
    /\ [][(sPc = "check" /\ det.pc = "done" /\ chk' # chk /\ sPc' # "ended") =>
            IF "YES_CHANGED" \in Range(det.out)
            THEN sPc' = "checked" /\ chk'.result = "true" /\ chk'.spawns = chk.spawns
            ELSE IF "NO_CHANGED" \in Range(det.out)
            THEN sPc' = "checked" /\ chk'.result = "false" /\ chk'.spawns = chk.spawns
            ELSE IF chk.spawns < 3
            THEN sPc' = "check" /\ chk'.result = "none" /\ det'.pc = "idle"
            ELSE sPc' = "checked" /\ chk'.result = "false"]_vars
    /\ [][sPc = "checked" /\ chk.result = "false" => sPc' # "refresh"]_vars

C9_Witness ==
    sPc = "checked" /\ chk.spawns = 3 /\ chk.last = "error" /\ chk.result = "false"

\* C10 as stated: every detector process that has exited left exactly one
\* of the three tokens on stdout.
C10_OneTokenAlways ==
    det.pc = "done" => Len(det.out) = 1 /\ det.out[1] \in Tokens

\* C10 as amended: every detector process that reached the __main__ block
\* and ran to its exit left exactly one of the three tokens on stdout, and
\* it is ERROR when has_data_changed raised.
C10_OneTokenFromMain ==
    (det.pc \in {"exiting", "done"} /\ det.result # "none")
        => /\ Len(det.out) = 1
           /\ det.out[1] \in Tokens
           /\ (det.result = "exc" => det.out = <<"ERROR">>)

C10_Witness ==
    det.pc = "done" /\ det.result = "exc" /\ det.out = <<"ERROR">>

InLoop == sPc \in {"sleep", "check", "checked", "refresh", "refreshed"}

\* C11: once the loop is entered, main() ends only by a KeyboardInterrupt
\* (never by a failure met inside an iteration).
C11_LoopEndsOnlyOnInterrupt ==
    (sPc = "ended" /\ endedBy \notin {"sys.exit", "uncaught"}) => endedBy = "KeyboardInterrupt"

\* C12: after the supervisor was ended by an interrupt, none of the API
\* processes it spawned is alive.
C12_NoApiLeftRunning ==
    (sPc = "ended" /\ endedBy \in {"KeyboardInterrupt", "uncaught"}) => apiLive = 0

\* C13: a refresh is started in the loop only after a check that returned
\* True; it makes at most 3 spawns, spawning again after a non-zero exit
\* code or a timeout while fewer than 3 were made; when it ends in failure
\* the supervisor goes back to sleep with the API child untouched.
C13_RefreshRetryBound ==
    /\ [](run.spawns <= 3)
    /\ [][(sPc' = "refresh" /\ sPc # "refresh") => sPc = "checked" /\ chk.result = "true"]_vars
    /\ [][(sPc = "refresh" /\ ref.pc = "done" /\ run' # run /\ sPc' # "ended") =>
            IF ref.rc = 0
            THEN sPc' = "refreshed" /\ run'.result = "true"
            ELSE IF run.spawns < 3
            THEN sPc' = "refresh" /\ run'.result = "none" /\ ref'.pc = "idle"
            ELSE sPc' = "refreshed" /\ run'.result = "false"]_vars
    /\ [][(sPc = "refresh" /\ ref.pc \notin {"idle", "done"} /\ ref'.pc = "idle" /\ sPc' # "ended") =>
            IF run.spawns < 3
            THEN sPc' = "refresh" /\ run'.result = "none"
            ELSE sPc' = "refreshed" /\ run'.result = "false"]_vars
    /\ [][(sPc = "refreshed" /\ sPc' # sPc) =>
            \/ sPc' = "sleep" /\ api_process' = api_process /\ apiLive' = apiLive
            \/ sPc' = "ended" /\ endedBy' = "KeyboardInterrupt"]_vars

C13_Witness ==
    sPc = "refreshed" /\ run.result = "false" /\ run.spawns = 3 /\ api_process = "alive"

\* C14: when the sleep ends and detection begins, a child that has exited
\* was replaced by a new one and any other state of the child was left as
\* it is; the supervisor spawns an API child only at startup or for a child
\* that has exited, so at most one of its API children is alive.
C14_RespawnOnlyWhenExited ==
    /\ [](apiLive <= 1)
    /\ [][(sPc = "sleep" /\ sPc' = "check") =>
            IF api_process = "exited"
            THEN api_process' = "alive" /\ apiLive' = apiLive + 1 /\ det'.pc = "idle"
            ELSE api_process' = api_process /\ apiLive' = apiLive]_vars
    /\ [][apiLive' > apiLive =>
            /\ apiLive = 0
            /\ \/ sPc = "startup_refreshed" /\ api_process = "None"
               \/ sPc = "sleep" /\ api_process = "exited"]_vars

C14_Witness ==
    sPc = "check" /\ chk.respawned /\ api_process = "alive" /\ apiLive = 1

\* C16: within one refresher run every database is processed whatever
\* happened to the one before it: a database without a prefixed collection
\* or without records adds no snapshot and is reported as failed, a
\* database that has records and whose fetch does not raise gets its
\* snapshot file, and a run that reaches its end has handled all databases.
C16_DatabasesIndependent ==
    /\ []((ref.pc = "done" /\ ref.rc = 0) => Len(ref.results) = Len(DATABASES))
    /\ []((ref.pc \in {"fetch", "done"} /\ ref.rc # 1) =>
            \A i \in 1..Len(ref.results) :
                ref.results[i] = "saved" <=> DATABASES[i] \in ref.saved)
    /\ [][(ref.pc = "fetch" /\ ref'.pc \in {"fetch", "done"} /\ ref' # ref) =>
            LET database == DATABASES[ref.idx]
                latest_collection == get_latest_collection(store[database])
                usable == /\ latest_collection # NoCollection
                          /\ Len(store[database][latest_collection]) # 0
                result == ref'.results[Len(ref'.results)]
            IN  /\ Len(ref'.results) = ref.idx
                /\ SubSeq(ref'.results, 1, Len(ref.results)) = ref.results
                /\ ~usable => /\ snapshots' = snapshots
                              /\ result \in {"no_collection", "no_records", "raised"}
                /\ usable => \/ result = "raised" /\ snapshots' = snapshots
                             \/ result = "saved" /\ SubDir(database) \in snapshots']_vars

C16_Witness ==
    ref.pc = "done" /\ ref.results = <<"no_records", "saved">> /\ snapshots = {"UD"}

\* C17: a refresher run in which the store connection failed during the
\* fetch for a database ends with a non-zero exit code.
C17_ConnectionFailureIsFatal ==
    (ref.pc = "done" /\ "raised" \in Range(ref.results)) => ref.rc # 0

\* ------------------------------------------------------------------------
\* Pure functions, evaluated while the system is at rest
\* ------------------------------------------------------------------------
system == <<store, version, hashFile, snapshots, portOpen, api_process, sPc,
            exitStatus, chk, run, det, ref, fileDecided, abandoned, seeded,
            intervalValid, endedBy, apiLive, adopted, orphans, scn>>

\* the state after construction with nothing started
AtRest ==
    /\ version = 1
    /\ store = StoreAt(1)
    /\ hashFile = NoFile
    /\ snapshots = {}
    /\ portOpen = FALSE
    /\ api_process = "None"
    /\ sPc = "start"
    /\ exitStatus = Running
    /\ chk = NoCheck
    /\ run = NoRun
    /\ det = NoProc
    /\ ref = NoProc
    /\ fileDecided = TRUE
    /\ abandoned = "none"
    /\ seeded = FALSE
    /\ intervalValid = TRUE
    /\ endedBy = "none"
    /\ apiLive = 0
    /\ adopted = FALSE
    /\ orphans = 0
    /\ scn = ScnOff

\* ---- get_mongodb_data_hash on two reads of one collection ----
\* the longest list of documents a read returns
MaxDocs == 2

\* DocA and DocB as pymongo may hand them over with the other key order
DocA_rev == << <<2, 20>>, <<1, 10>> >>
DocB_rev == << <<2, 20>>, <<1, 11>> >>

\* what list(collection.find({}, {'_id': 0})) can return (line 66)
Reads == UNION {[1..n -> {DocA, DocA_rev, DocB, DocB_rev}] : n \in 0..MaxDocs}

\* the store as one read of the current collection of BACHV_BB_STOCKS saw it
StoreWith(documents) == StoreOf([n \in {Name_Net_Data_1} |-> documents], DbV1)

InitHash ==
    /\ AtRest
    /\ \E r1, r2 \in Reads :
        calc = [kind |-> "hash", read1 |-> r1, read2 |-> r2, h1 |-> NoHash, h2 |-> NoHash]

HashFirstRead ==
    /\ calc.kind = "hash"
    /\ calc.h1 = NoHash
    /\ calc' = [calc EXCEPT !.h1 = DataHash(StoreWith(calc.read1), {})]
    /\ UNCHANGED system

HashSecondRead ==
    /\ calc.kind = "hash"
    /\ calc.h2 = NoHash
    /\ calc' = [calc EXCEPT !.h2 = DataHash(StoreWith(calc.read2), {})]
    /\ UNCHANGED system

NextHash == HashFirstRead \/ HashSecondRead
SpecHash == InitHash /\ [][NextHash]_vars

\* the two reads hold the same records: one is a rearrangement of the
\* other, a record being its set of key/value pairs
SameRecords(r1, r2) ==
    /\ Len(r1) = Len(r2)
    /\ \E p \in [1..Len(r1) -> 1..Len(r1)] :
        /\ \A i, j \in 1..Len(r1) : i # j => p[i] # p[j]
        /\ \A i \in 1..Len(r1) : Range(r1[i]) = Range(r2[p[i]])

\* C15: two reads that return the same records give the same fingerprint,
\* whatever the key order inside the records and whatever the order in
\* which the records were iterated.
C15_FingerprintOrderIndependent ==
    (/\ calc.kind = "hash"
     /\ calc.h1 # NoHash
     /\ calc.h2 # NoHash
     /\ SameRecords(calc.read1, calc.read2)) => calc.h1 = calc.h2

\* ---- API.py get_latest_csv on the listing of one snapshot directory ----
\* the most files the directory holds / the latest creation time
MaxFiles == 3
MaxCtime == 3

\* a snapshot file: the timestamp in its name (mongodb_data_<stamp>.csv)
\* and the creation time os.path.getctime reports for it
SnapshotFiles == [stamp : 1..MaxFiles, ctime : 1..MaxCtime]

\* what glob.glob(pattern) can return (line 72): the files of the
\* directory, each path once, in any order
Listings ==
    UNION {{l \in [1..n -> SnapshotFiles] :
                \A i, j \in 1..n : i # j => l[i].stamp # l[j].stamp} : n \in 0..MaxFiles}

NotCalled == [status |-> 0]
HTTPException == [status |-> 500]

\* lines 76-88: FileNotFoundError (turned into HTTPException 500 at line
\* 92) on an empty listing, else max(csv_files, key=os.path.getctime), which
\* is the first file of the listing among those of the greatest ctime
get_latest_csv_mut(csv_files) ==
    IF Len(csv_files) = 0 THEN HTTPException
    ELSE LET i == CHOOSE k \in 1..Len(csv_files) :
                    \A j \in 1..Len(csv_files) : csv_files[j].stamp <= csv_files[k].stamp
         IN  [status |-> 200, latest_file |-> csv_files[i]]
get_latest_csv(csv_files) ==
    IF Len(csv_files) = 0 THEN HTTPException
    ELSE LET i == CHOOSE k \in 1..Len(csv_files) :
                    /\ \A j \in 1..Len(csv_files) : csv_files[j].ctime <= csv_files[k].ctime
                    /\ \A j \in 1..(k - 1) : csv_files[j].ctime < csv_files[k].ctime
         IN  [status |-> 200, latest_file |-> csv_files[i]]

InitLatest ==
    /\ AtRest
    /\ \E l \in Listings : calc = [kind |-> "latest", csv_files |-> l, result |-> NotCalled]

CallGetLatestCsv ==
    /\ calc.kind = "latest"
    /\ calc.result = NotCalled
    /\ calc' = [calc EXCEPT !.result = get_latest_csv(calc.csv_files)]
    /\ UNCHANGED system

NextLatest == CallGetLatestCsv
SpecLatest == InitLatest /\ [][NextLatest]_vars

DistinctCtimes(csv_files) ==
    \A i, j \in 1..Len(csv_files) : i # j => csv_files[i].ctime # csv_files[j].ctime

\* C20: for a directory of several snapshot files with distinct creation
\* times get_latest_csv returns the one file of the directory whose
\* creation time is the greatest, wherever it stands in the listing.
C20_LatestIsMaxCtime ==
    (/\ calc.kind = "latest"
     /\ calc.result # NotCalled
     /\ Len(calc.csv_files) >= 2
     /\ DistinctCtimes(calc.csv_files)) =>
        /\ calc.result.status = 200
        /\ calc.result.latest_file \in Range(calc.csv_files)
        /\ \A f \in Range(calc.csv_files) : f.ctime <= calc.result.latest_file.ctime

C20_Witness ==
    /\ calc.kind = "latest"
    /\ calc.result # NotCalled
    /\ Len(calc.csv_files) = 3
    /\ DistinctCtimes(calc.csv_files)
    /\ calc.result.latest_file = calc.csv_files[2]
    /\ calc.csv_files[2].stamp < calc.csv_files[3].stamp

\* ---- get_mongo_data.py fetch_and_save_data and the snapshot files ----
\* the clock advances in ticks, TicksPerSecond of them to a second, up to
\* MaxClock
TicksPerSecond == 2
MaxClock == 4
\* the successive contents of the collections the external writers produce
MaxData == 2

\* datetime.now().strftime("%Y%m%d_%H%M%S") (line 94): the time cut to
\* whole seconds
Stamp(now) == now \div TicksPerSecond

\* lines 91-95: Get_Data/<sub_dir>/mongodb_data_<stamp>.csv
OutputFile(database, now) == <<SubDir(database), Stamp(now)>>

\* df.to_csv(output_path) (line 76) creates the file or replaces the
\* contents of the file that has this path
to_csv(files, output_path, data) ==
    {f \in files : f.path # output_path} \cup {[path |-> output_path, data |-> data]}

InitFiles ==
    /\ AtRest
    /\ calc = [kind |-> "files", now |-> 0, data |-> 1, files |-> {}, written |-> {}]

Tick ==
    /\ calc.kind = "files"
    /\ calc.now < MaxClock
    /\ calc' = [calc EXCEPT !.now = @ + 1]
    /\ UNCHANGED system

\* external writers replace the records of the collections
DataChange ==
    /\ calc.kind = "files"
    /\ calc.data < MaxData
    /\ calc' = [calc EXCEPT !.data = @ + 1]
    /\ UNCHANGED system

\* a call of fetch_and_save_data that finds records and saves them
\* (lines 91-114); `written` keeps every file a call has written
FetchAndSave ==
    /\ calc.kind = "files"
    /\ \E database \in DbSet :
        LET output_file == OutputFile(database, calc.now)
        IN  calc' = [calc EXCEPT
                        !.files = to_csv(@, output_file, calc.data),
                        !.written = @ \cup {[path |-> output_file, data |-> calc.data]}]
    /\ UNCHANGED system

NextFiles == Tick \/ DataChange \/ FetchAndSave
SpecFiles == InitFiles /\ [][NextFiles]_vars

\* C18: every snapshot file a fetch_and_save_data call has written still
\* exists with the contents it was written with, and a call that saves
\* creates a file that was not there.
C18_NeverOverwrites ==
    /\ [](calc.kind = "files" => calc.written \subseteq calc.files)
    /\ [][(calc.kind = "files" /\ calc'.files # calc.files) =>
            Cardinality(calc'.files) = Cardinality(calc.files) + 1]_vars

\* ------------------------------------------------------------------------
\* The end-to-end scenario: a cold start over a store that does not change
\* ------------------------------------------------------------------------
DocC == << <<1, 12>>, <<2, 20>> >>
\* one versioned collection of 3 records
DbThree == [n \in {Name_Net_Data_1} |-> <<DocA, DocB, DocC>>]

InitE2E ==
    /\ version = MaxVersion
    /\ store = StoreOf(DbThree, DbThree)
    /\ hashFile = NoFile
    /\ snapshots = {}
    /\ portOpen \in BOOLEAN
    /\ api_process = "None"
    /\ sPc = "start"
    /\ exitStatus = Running
    /\ chk = NoCheck
    /\ run = NoRun
    /\ det = NoProc
    /\ ref = NoProc
    /\ fileDecided = TRUE
    /\ abandoned = "none"
    /\ seeded = FALSE
    /\ intervalValid \in BOOLEAN
    /\ endedBy = "none"
    /\ apiLive = 0
    /\ adopted = FALSE
    /\ orphans = 0
    /\ scn = [ScnOff EXCEPT !.on = TRUE]
    /\ calc = NoCalc

NextE2E ==
    \/ ApiCrash
    \/ Detector
    \/ Refresher
    \/ check_mongodb_changes
    \/ run_get_mongo_data
    \/ main

SpecE2E == InitE2E /\ [][NextE2E]_vars

\* the scenario is followed and has met no failure
Followed == scn.on /\ scn.clean

\* C19 as stated: in the scenario the first check reports a change, the
\* second does not and starts no refresh, every snapshot has 3 rows and 2
\* snapshot files have been written in all.
C19_SnapshotCountStaysTwo ==
    (Followed /\ Len(scn.checks) = 2) =>
        /\ scn.checks = <<"true", "false">>
        /\ sPc \notin {"refresh", "refreshed"}
        /\ ref.pc = "idle"
        /\ scn.rowsOk
        /\ scn.written = 2

\* the snapshot files written before the loop: none when a listening API
\* was adopted, one per database by the startup refresh otherwise
StartupWrites == IF adopted THEN 0 ELSE Len(DATABASES)

\* C19 (amended): in the scenario the first check reports a change and the
\* refresh after it writes 2 snapshot files of 3 rows, the second check
\* reports no change and starts no refresh, and the number of snapshot
\* files written stays at 2 plus the 2 of the startup refresh, which ran
\* unless an API was already listening.
C19_ColdStartScenario ==
    /\ (Followed /\ InLoop /\ scn.checks = <<>>) => scn.written = StartupWrites
    /\ (Followed /\ Len(scn.checks) >= 1) => scn.checks[1] = "true"
    /\ (Followed /\ Len(scn.checks) = 1 /\ sPc \in {"refreshed", "sleep"}) =>
            scn.written = StartupWrites + 2
    /\ (Followed /\ Len(scn.checks) = 2) =>
            /\ scn.checks[2] = "false"
            /\ sPc \notin {"refresh", "refreshed"}
            /\ ref.pc = "idle"
            /\ scn.written = StartupWrites + 2
    /\ Followed => scn.rowsOk

C19_Witness ==
    /\ Followed
    /\ ~portOpen
    /\ scn.checks = <<"true", "false">>
    /\ scn.written = 4
    /\ sPc = "sleep"

\* ------------------------------------------------------------------------
\* Sequencing and retry bounds
\* ------------------------------------------------------------------------
\* a subprocess that was spawned and has not exited
Alive(process) == process.pc \notin {"idle", "done"}

\* the living detector and refresher processes the supervisor has spawned
SubLive ==
    orphans + (IF Alive(det) THEN 1 ELSE 0) + (IF Alive(ref) THEN 1 ELSE 0)

\* C21: at most one detector or refresher subprocess of the supervisor is
\* alive; a detector lives only during the detection step and a refresher
\* only during a refresh step; a detector is spawned, and the API child is
\* respawned, only while no other subprocess lives.
C21_OneSubprocessAtATime ==
    /\ [](SubLive <= 1)
    /\ []((Alive(det) /\ sPc # "ended") => sPc = "check")
    /\ []((Alive(ref) /\ sPc # "ended") => InRun)
    /\ [][(det.pc = "idle" /\ det'.pc # "idle") => (sPc = "check" /\ SubLive = 0)]_vars
    /\ [][(ref.pc = "idle" /\ ref'.pc # "idle") => (InRun /\ SubLive = 0)]_vars
    /\ [][(apiLive' > apiLive /\ InLoop) => SubLive = 0]_vars

C21_Witness ==
    /\ sPc = "check"
    /\ chk.last = "timeout"
    /\ chk.spawns = 2
    /\ Alive(det)
    /\ SubLive = 1

\* C22: each of the four retry loops makes at most 3 attempts, has paused
\* 2 seconds for every attempt it repeated, and its third attempt ends the
\* loop with an outcome.
C22_AllRetriesBounded ==
    /\ [](det.pc # "idle" => (det.retry <= 2 /\ det.waited = 2 * det.retry))
    /\ [](ref.pc # "idle" => (ref.retry <= 2 /\ ref.waited = 2 * ref.retry))
    /\ [](chk.spawns <= 3 /\ chk.retry <= 2 /\ chk.waited = 2 * chk.retry)
    /\ [](run.spawns <= 3 /\ run.retry <= 2 /\ run.waited = 2 * run.retry)
    /\ [][(det.pc = "hash" /\ det.retry = 2 /\ det' # det /\ det'.pc # "idle") =>
            \/ det'.pc = "exists" /\ det'.hash # NoHash
            \/ det'.pc = "print" /\ det'.result = "false"]_vars
    /\ [][(ref.pc = "connect" /\ ref.retry = 2 /\ ref' # ref /\ ref'.pc # "idle") =>
            \/ ref'.pc = "fetch"
            \/ ref'.pc = "done" /\ ref'.rc = 1]_vars
    /\ [][(sPc = "check" /\ chk.spawns = 3 /\ det.pc # "idle" /\ chk' # chk) =>
            \/ sPc' = "checked" /\ chk'.result \in {"true", "false"}
            \/ sPc' = "ended"]_vars
    /\ [][(InRun /\ run.spawns = 3 /\ ref.pc # "idle" /\ run' # run) =>
            \/ sPc' = AfterRun /\ run'.result \in {"true", "false"}
            \/ sPc' = "ended"]_vars

C22_Witness ==
    /\ sPc = "checked"
    /\ chk.spawns = 3
    /\ chk.waited = 4
    /\ chk.result = "false"

\* C23: an attempt of the constructor that connects leads straight to the
\* fetches; a failed attempt is repeated while fewer than 3 were made; the
\* third failure ends the process with exit code 1, no database handled
\* and no snapshot written.
C23_ConstructionFailure ==
    /\ [][(ref.pc = "connect" /\ ref' # ref /\ ref'.pc # "idle") =>
            /\ snapshots' = snapshots
            /\ \/ ref'.pc = "fetch" /\ ref'.retry = ref.retry /\ ref'.rc = Running
               \/ ref'.pc = "connect" /\ ref'.retry = ref.retry + 1 /\ ref.retry < 2
               \/ ref'.pc = "done" /\ ref'.rc = 1 /\ ref.retry = 2]_vars
    /\ []((ref.pc = "done" /\ ref.rc = 1) =>
            (ref.results = <<>> /\ ref.saved = {} /\ ref.retry = 2))
    /\ []((ref.pc = "done" /\ ref.rc # 1) => (ref.rc = 0 /\ ref.results # <<>>))

C23_Witness ==
    ref.pc = "done" /\ ref.rc = 1 /\ ref.retry = 2 /\ snapshots = {}

\* ---- the detector and a database without a prefixed collection ----
\* the detector holds a digest of the store as it is
DigestOfStore ==
    /\ det.pc \in {"exists", "write", "print", "exiting", "done"}
    /\ det.hash # NoHash
    /\ ~det.partial
    /\ ~det.stale

\* the store with other contents in the databases that have no prefixed
\* collection
Masked(st) ==
    [d \in DbSet |-> IF PrefixedCollections(st[d]) = {}
                     THEN [n \in {Name_meta} |-> <<DocB>>]
                     ELSE st[d]]

\* C24: the digest covers exactly the databases that have a prefixed
\* collection, it does not depend on what a database without one holds,
\* and a run that computed it and met no file error prints YES_CHANGED or
\* NO_CHANGED.
C24_MissingCollectionSkipped ==
    /\ DigestOfStore =>
        /\ det.hash = DataHash(Masked(store), {})
        /\ {det.hash[2][i].database : i \in 1..Len(det.hash[2])}
                = {d \in DbSet : PrefixedCollections(store[d]) # {}}
    /\ (det.pc = "done" /\ det.hash # NoHash /\ det.result # "exc") =>
            det.out \in {<<"YES_CHANGED">>, <<"NO_CHANGED">>}

C24_Witness ==
    /\ DigestOfStore
    /\ det.pc = "done"
    /\ PrefixedCollections(store[DB_BB]) = {}
    /\ Len(det.hash[2]) = 1
    /\ det.out = <<"YES_CHANGED">>

\* ---- the snapshot subdirectory of a database name ----
\* the longest database name tried / the letters names are made of
MaxNameLen == 4
NameLetters == {"B", "U", "D", "b"}
DatabaseNames ==
    UNION {[1..n -> NameLetters] : n \in 0..MaxNameLen} \cup DbSet

\* API.py lines 61-65: the subdirectory get_latest_csv reads for a
\* data_type, given in upper case as data_type.upper() makes it
DataDirOf(data_type) ==
    IF data_type \in {"BB", "UD"} THEN data_type ELSE "HTTPException"

InitSubDir ==
    /\ AtRest
    /\ \E name \in DatabaseNames :
        calc = [kind |-> "subdir", database |-> name, sub_dir |-> "none"]

CallSubDir ==
    /\ calc.kind = "subdir"
    /\ calc.sub_dir = "none"
    /\ calc' = [calc EXCEPT !.sub_dir = SubDir(calc.database)]
    /\ UNCHANGED system

NextSubDir == CallSubDir
SpecSubDir == InitSubDir /\ [][NextSubDir]_vars

\* two letters stand side by side in the name
HasPair(name, a, b) ==
    \E i \in 1..(Len(name) - 1) : name[i] = a /\ name[i + 1] = b

\* C25: every name gets a subdirectory: BB when it contains "BB", else UD
\* when it contains "UD", else Other; the configured databases get BB and
\* UD, the directories get_latest_csv reads for these data types.
C25_SubDirTotal ==
    (calc.kind = "subdir" /\ calc.sub_dir # "none") =>
        /\ calc.sub_dir = (IF HasPair(calc.database, "B", "B") THEN "BB"
                           ELSE IF HasPair(calc.database, "U", "D") THEN "UD"
                           ELSE "Other")
        /\ calc.database = DB_BB => calc.sub_dir = DataDirOf("BB")
        /\ calc.database = DB_UD => calc.sub_dir = DataDirOf("UD")
        /\ DataDirOf("BB") # DataDirOf("UD")

C25_Witness ==
    /\ calc.kind = "subdir"
    /\ calc.database = <<"U", "D", "B", "B">>
    /\ calc.sub_dir = "BB"

\* ------------------------------------------------------------------------
\* Fingerprint and snapshots
\* ------------------------------------------------------------------------
\* every database of the store has records to fetch
AllUsable(st) == \A d \in DbSet : FetchResult(d, st, "ok") = "saved"

\* C26: when a detection reports no change because the stored fingerprint
\* is that of the store as it is, a fingerprint the supervisor was told
\* about with YES_CHANGED, and every database has records, then the
\* snapshots of these databases have been produced.
C26_RecordedChangeMaterialized ==
    (/\ sPc = "checked"
     /\ chk.last = "unchanged"
     /\ fileDecided
     /\ hashFile = DataHash(store, {})
     /\ AllUsable(store)) => snapshots = {SubDir(d) : d \in DbSet}

\* C27: a detector that compares with the stored fingerprint and decides
\* "changed" does so for a store whose contents are not those the stored
\* fingerprint was computed from.
C27_ChangedOnlyOnRealChange ==
    (/\ det.pc = "write"
     /\ det.compared
     /\ det.changed
     /\ ~det.stale) => hashFile # DataHash(store, {})

\* C28: a supervisor that adopted a listening API server ran no startup
\* refresh and holds no API process, and none of its steps spawns or
\* terminates one, whether or not the server still listens.
C28_AdoptedApiUntouched ==
    /\ [](adopted =>
            /\ api_process = "None"
            /\ apiLive = 0
            /\ sPc \notin {"start", "startup_refresh", "startup_refreshed", "api_spawned"})
    /\ [][(adopted' /\ ~adopted) =>
            (portOpen /\ sPc' = "sleep" /\ ref' = ref /\ ref.pc = "idle")]_vars
    /\ [][adopted => (api_process' = api_process /\ apiLive' = apiLive)]_vars

C28_Witness ==
    /\ adopted
    /\ ~portOpen
    /\ sPc = "ended"
    /\ endedBy = "KeyboardInterrupt"
    /\ api_process = "None"

\* the stored fingerprint is that of an earlier store whose current
\* collection in some database had another name than it has now
NewerCollectionSince ==
    \E v \in 1..Len(StoreVersions) :
        /\ hashFile = DataHash(StoreAt(v), {})
        /\ \E d \in DbSet :
            get_latest_collection(StoreAt(v)[d]) # get_latest_collection(store[d])

\* C29: detector and refresher resolve the same current collection in
\* every database, and a detector that compares a digest of the store with
\* the fingerprint of a store whose current collection had another name
\* decides "changed".
C29_SameResolutionNameCovered ==
    /\ \A d \in DbSet :
        get_latest_collection(store[d]) = NetworkDataFetch_get_latest_collection(store[d])
    /\ (/\ det.pc \in {"write", "print"}
        /\ det.compared
        /\ det.writes = 0
        /\ ~det.partial
        /\ ~det.stale
        /\ NewerCollectionSince) => det.changed

C29_Witness ==
    /\ det.pc = "write"
    /\ det.compared
    /\ det.changed
    /\ ~det.partial
    /\ ~det.stale
    /\ hashFile = DataHash(StoreAt(3), {})
    /\ store = StoreAt(5)
    /\ StoreAt(3)[DB_BB][Name_Net_Data_1] = store[DB_BB][Name_Net_Data_2]
    /\ StoreAt(3)[DB_UD] = store[DB_UD]

\* C30: in the loop a refresh begins only from a detection classified as
\* changed and with no detector left; the refresher is spawned only during
\* such a refresh; a detection that ended otherwise returns False and the
\* supervisor goes to sleep without a refresher.
C30_RefreshOnlyAfterChanged ==
    /\ [][(sPc' = "refresh" /\ sPc # "refresh") =>
            (sPc = "checked" /\ chk.last = "changed" /\ chk.result = "true"
                /\ det.pc = "idle")]_vars
    /\ [][(InLoop /\ ref.pc = "idle" /\ ref'.pc # "idle") =>
            (sPc = "refresh" /\ det.pc = "idle")]_vars
    /\ []((sPc = "checked" /\ chk.last # "changed") =>
            (chk.result = "false"
                /\ chk.last \in {"unchanged", "error", "undefined", "timeout", "exception"}))
    /\ [][(sPc = "checked" /\ chk.last # "changed" /\ sPc' # sPc) =>
            (sPc' \in {"sleep", "ended"} /\ ref'.pc = "idle")]_vars
    /\ []((InLoop /\ sPc # "refresh") => ref.pc = "idle")

C30_Witness ==
    sPc = "refresh" /\ ref.pc = "fetch" /\ det.pc = "idle" /\ adopted

====
